---- MODULE Spec2Model ----
(***************************************************************************)
(* The particle notebooks (src/python/classes.ipynb): the three particle   *)
(* representations (plain function, dict record, class hierarchy), the     *)
(* invariant-mass computation and particle addition, as a state machine    *)
(* over a heap of Python objects.                                          *)
(*                                                                         *)
(* Python numbers are modelled as they are: an int is exact and unbounded  *)
(* (the values reached here stay far below TLC's integer width), a *)
(* float is a binary floating-point number m * 2^e whose significand holds *)
(* Precision bits (53 in CPython; narrowed here), every float operation    *)
(* rounding its exact result to nearest, ties to even.                     *)
(***************************************************************************)
EXTENDS Integers, Sequences, FiniteSets, TLC

\* ------------------------------------------------------------------------
\* Bounds of the model
\* ------------------------------------------------------------------------

\* Bits of a float's significand (sys.float_info.mant_dig, narrowed).
Precision == 13

\* Objects the heap may hold.
MaxDunderObjs == 2

MaxObjs == 3

\* ------------------------------------------------------------------------
\* Python values
\* ------------------------------------------------------------------------

PyInt(n) == [t |-> "int", n |-> n]

\* The float m * 2^e, canonical: m odd, or m = 0 and e = 0.
PyFloat(m, e) == [t |-> "float", m |-> m, e |-> e]

NaN == [t |-> "nan"]

IsInt(v) == v.t = "int"

IsFloat(v) == v.t = "float"

IsNumber(v) == v.t \in {"int", "float"}

Abs(n) == IF n < 0 THEN -n ELSE n

RECURSIVE BitLen(_)
BitLen(n) == IF n = 0 THEN 0 ELSE 1 + BitLen(n \div 2)

\* m * 2^e with the trailing zero bits of m moved into the exponent.
RECURSIVE Canon(_, _)
Canon(m, e) ==
    IF m = 0 THEN PyFloat(0, 0)
    ELSE IF m % 2 = 0 THEN Canon(m \div 2, e + 1)
    ELSE PyFloat(m, e)

\* The exact value m * 2^e rounded to a float: to Precision significant
\* bits, to nearest, ties to even.
RoundP(m, e) ==
    LET a  == Abs(m)
        sh == BitLen(a) - Precision
    IN  IF sh <= 0 THEN Canon(m, e)
        ELSE LET q    == a \div (2 ^ sh)
                 r    == a % (2 ^ sh)
                 half == 2 ^ (sh - 1)
                 up   == r > half \/ (r = half /\ q % 2 = 1)
                 q2   == IF up THEN q + 1 ELSE q
             IN  Canon(IF m < 0 THEN -q2 ELSE q2, e + sh)

\* float(n) of an int; a float is itself.
ToFloat(v) == IF IsInt(v) THEN RoundP(v.n, 0) ELSE v

Min(a, b) == IF a < b THEN a ELSE b

\* x + y of two floats.
FAdd(x, y) ==
    LET e == Min(x.e, y.e)
    IN  RoundP(x.m * (2 ^ (x.e - e)) + y.m * (2 ^ (y.e - e)), e)

FNeg(x) == PyFloat(-x.m, x.e)

\* x * y of two floats.
FMul(x, y) == RoundP(x.m * y.m, x.e + y.e)

\* The largest r in lo..hi with r * r <= t  (lo * lo <= t).
RECURSIVE ISqrtIn(_, _, _)
ISqrtIn(t, lo, hi) ==
    IF lo = hi THEN lo
    ELSE LET mid == (lo + hi + 1) \div 2
         IN  IF mid * mid <= t THEN ISqrtIn(t, mid, hi)
             ELSE ISqrtIn(t, lo, mid - 1)

\* sqrt(x) of a float x >= 0, correctly rounded: the significand is scaled
\* to 2*Precision (or one less) bits with an even exponent, so that its
\* integer root has Precision bits; the remainder decides the rounding.
FSqrt(x) ==
    IF x.m = 0 THEN x
    ELSE LET k0 == 2 * Precision - BitLen(x.m)
             k  == IF (x.e - k0) % 2 = 0 THEN k0 ELSE k0 - 1
             t  == x.m * (2 ^ k)
             r  == ISqrtIn(t, 0, 2 ^ Precision)
             r2 == IF t > r * r + r THEN r + 1 ELSE r
         IN  Canon(r2, (x.e - k) \div 2)

\* a + b of two numbers: exact on ints, a float as soon as one is a float.
PyAdd(a, b) ==
    IF IsInt(a) /\ IsInt(b) THEN PyInt(a.n + b.n)
    ELSE FAdd(ToFloat(a), ToFloat(b))

\* a - b of two numbers.
PySub(a, b) ==
    IF IsInt(a) /\ IsInt(b) THEN PyInt(a.n - b.n)
    ELSE FAdd(ToFloat(a), FNeg(ToFloat(b)))

\* a ** 2.
PySquare(a) == IF IsInt(a) THEN PyInt(a.n * a.n) ELSE FMul(a, a)

\* v < 0.
IsNegative(v) == IF IsInt(v) THEN v.n < 0 ELSE v.m < 0

\* FloatLiteral with the fraction digits dropped (41.234227 read as 41).
FloatLiteral_whole(whole, micro) == RoundP(whole, 0)

\* The float literal whole.micro (micro: six decimal digits), whole >= 1:
\* the nearest float.
FloatLiteral(whole, micro) ==
    LET k   == Precision - BitLen(whole)
        num == micro * (2 ^ k)
        q   == whole * (2 ^ k) + num \div 1000000
        r   == num % 1000000
        up  == 2 * r > 1000000 \/ (2 * r = 1000000 /\ q % 2 = 1)
    IN  Canon(IF up THEN q + 1 ELSE q, -k)

\* ------------------------------------------------------------------------
\* State
\* ------------------------------------------------------------------------

\* heap:       the objects created so far, in creation order; an object's
\*             identity is its index.  An object is [cls, attrs]: its type
\*             and its attribute store (an instance's __dict__, a dict's
\*             entries, or the notebook's loose pi1_* names).
\* ret:        the last evaluated cell: the operation, its operands and its
\*             outcome (a returned value or a raised exception).
\* reassigned: whether some component was given a new value after its
\*             object was created.
VARIABLES heap, ret, reassigned

vars == <<heap, ret, reassigned>>

Fields == <<"px", "py", "pz", "E">>

FieldNames == {"px", "py", "pz", "E"}

Obj(cls, attrs) == [cls |-> cls, attrs |-> attrs]

\* A reference to the object with identity id.
Ref(id) == [t |-> "ref", id |-> id]

\* A function object, by name.
Func(name) == [t |-> "function", name |-> name]

Returned(v) == [kind |-> "return", val |-> v]

Raised(exc) == [kind |-> "raise", exc |-> exc]

NoneValue == [t |-> "None"]

\* The attribute store of an instance fresh from object.__new__.
NoAttrs == [a \in {} |-> NoneValue]

\* numpy's handling of an invalid floating-point operation: "warn" (the
\* default: the result is nan, with a RuntimeWarning) or "raise"
\* (np.seterr(invalid='raise'), or warnings turned into errors).
ErrModes == {"warn", "raise"}

\* The four components of an object, in the order px, py, pz, E.
Comps(attrs) == <<attrs["px"], attrs["py"], attrs["pz"], attrs["E"]>>

\* ------------------------------------------------------------------------
\* The mass computation
\* ------------------------------------------------------------------------

\* np_sqrt taking the root of the absolute value.
np_sqrt_abs(x, mode) ==
    LET f == ToFloat(x)
    IN  Returned(FSqrt(IF f.m < 0 THEN FNeg(f) ELSE f))

\* np.sqrt of a number: an int is converted to float64 first; a negative
\* argument is an invalid operation.
np_sqrt(x, mode) ==
    IF IsNegative(x)
    THEN IF mode = "raise" THEN Raised("FloatingPointError") ELSE Returned(NaN)
    ELSE Returned(FSqrt(ToFloat(x)))

\* E ** 2 - (px ** 2 + py ** 2 + pz ** 2)
Radicand(px, py, pz, E) ==
    PySub(PySquare(E),
          PyAdd(PyAdd(PySquare(px), PySquare(py)), PySquare(pz)))

\* calc_mass_simple without the parentheses around the momentum:
\* E ** 2 - px ** 2 + py ** 2 + pz ** 2
calc_mass_simple_noparens(px, py, pz, E, mode) ==
    np_sqrt(PyAdd(PyAdd(PySub(PySquare(E), PySquare(px)), PySquare(py)),
                  PySquare(pz)), mode)

calc_mass_simple(px, py, pz, E, mode) == np_sqrt(Radicand(px, py, pz, E), mode)

\* calc_mass with pz left out of the momentum.
calc_mass_nopz(particle, mode) ==
    LET momentum == PyAdd(PySquare(particle["px"]), PySquare(particle["py"]))
    IN  np_sqrt(PySub(PySquare(particle["E"]), momentum), mode)

\* calc_mass(particle) on a dict record.
calc_mass(particle, mode) ==
    LET momentum == PyAdd(PyAdd(PySquare(particle["px"]), PySquare(particle["py"])),
                          PySquare(particle["pz"]))
    IN  IF \E f \in FieldNames : ~IsNumber(particle[f])
        THEN Raised("TypeError")   \* None ** 2
        ELSE np_sqrt(PySub(PySquare(particle["E"]), momentum), mode)

\* ------------------------------------------------------------------------
\* The classes.  A method is an operator on the instance's attribute store
\* (self); it yields the outcome and the store as the method leaves it.
\* ------------------------------------------------------------------------

SimpleParticle_init(self, px, py, pz, E) ==
    ("px" :> px) @@ ("py" :> py) @@ ("pz" :> pz) @@ ("E" :> E) @@ self

SimpleParticle_calc_mass(self, mode) ==
    [out  |-> calc_mass_simple(self["px"], self["py"], self["pz"], self["E"], mode),
     self |-> self]

\* Particle.__init__ storing float(E).
Particle_init_coerce(self, px, py, pz, E) ==
    ("px" :> px) @@ ("py" :> py) @@ ("pz" :> pz) @@ ("E" :> ToFloat(E)) @@ self

Particle_init(self, px, py, pz, E) ==
    ("px" :> px) @@ ("py" :> py) @@ ("pz" :> pz) @@ ("E" :> E) @@ self

\* Particle.calc_mass caching its result in self.mass.
Particle_calc_mass_cached(self, mode) ==
    LET out == IF "mass" \in DOMAIN self THEN Returned(self["mass"])
               ELSE calc_mass_simple(self["px"], self["py"], self["pz"], self["E"], mode)
    IN  [out  |-> out,
         self |-> IF out.kind = "return" THEN ("mass" :> out.val) @@ self ELSE self]

Particle_calc_mass(self, mode) ==
    [out  |-> calc_mass_simple(self["px"], self["py"], self["pz"], self["E"], mode),
     self |-> self]

\* Particle.__add__ adding other.py to self.px.
Particle_add_swapped(self, other) ==
    [self  |-> self,
     alloc |-> <<Obj("Particle",
                     Particle_init(NoAttrs, PyAdd(self["px"], other["py"]),
                                            PyAdd(self["py"], other["py"]),
                                            PyAdd(self["pz"], other["pz"]),
                                            PyAdd(self["E"], other["E"])))>>,
     ret   |-> 1]

\* Particle.__add__ keeping the energy of self.
Particle_add_keepsE(self, other) ==
    [self  |-> self,
     alloc |-> <<Obj("Particle",
                     Particle_init(NoAttrs, PyAdd(self["px"], other["px"]),
                                            PyAdd(self["py"], other["py"]),
                                            PyAdd(self["pz"], other["pz"]),
                                            self["E"]))>>,
     ret   |-> 1]

\* Particle.__add__ building the sum on a copy of self's attributes.
Particle_add_keepsextra(self, other) ==
    [self  |-> self,
     alloc |-> <<Obj("Particle",
                     Particle_init(self, PyAdd(self["px"], other["px"]),
                                         PyAdd(self["py"], other["py"]),
                                         PyAdd(self["pz"], other["pz"]),
                                         PyAdd(self["E"], other["E"])))>>,
     ret   |-> 1]

\* Particle.__add__ adding into self and returning it (an in-place +=).
Particle_add_inplace(self, other) ==
    [self  |-> Particle_init(self, PyAdd(self["px"], other["px"]),
                                   PyAdd(self["py"], other["py"]),
                                   PyAdd(self["pz"], other["pz"]),
                                   PyAdd(self["E"], other["E"])),
     alloc |-> <<>>,
     ret   |-> 0]

\* Particle.__add__: the store of self as the method leaves it, the objects
\* it constructs, and what it returns (0: self, k: the k-th constructed).
Particle_add(self, other) ==
    LET new_px == PyAdd(self["px"], other["px"])
        new_py == PyAdd(self["py"], other["py"])
        new_pz == PyAdd(self["pz"], other["pz"])
        new_E  == PyAdd(self["E"], other["E"])
    IN  [self  |-> self,
         alloc |-> <<Obj("Particle",
                         Particle_init(NoAttrs, new_px, new_py, new_pz, new_E))>>,
         ret   |-> 1]

\* superpower=42
DefaultSuperpower == 42

BetterParticle_init(self, px, py, pz, E, superpower) ==
    ("superpower" :> superpower) @@ Particle_init(self, px, py, pz, E)

Classes == {"SimpleParticle", "Particle", "VerboseParticle", "BetterParticle"}

\* class C(Base)
Base(cls) ==
    IF cls \in {"VerboseParticle", "BetterParticle"} THEN "Particle" ELSE "object"

\* The methods a class body defines.
Defines(cls) ==
    CASE cls = "SimpleParticle"  -> {"__init__", "calc_mass"}
      [] cls = "Particle"        -> {"__init__", "calc_mass", "__add__"}
      [] cls = "VerboseParticle" -> {"momentum_text"}
      [] cls = "BetterParticle"  -> {"__init__"}
      [] OTHER                   -> {}

\* Attribute lookup along the base classes: the class whose body defines
\* name, "object" when none does.
RECURSIVE Resolve(_, _)
Resolve(cls, name) ==
    IF cls \notin Classes THEN "object"
    ELSE IF name \in Defines(cls) THEN cls
    ELSE Resolve(Base(cls), name)

\* cls(px, py, pz, E) and BetterParticle(px, py, pz, E, superpower): the
\* new instance, initialised by the __init__ the class resolves to.
Instantiate(cls, px, py, pz, E, superpower) ==
    LET owner == Resolve(cls, "__init__")
    IN  Obj(cls,
            CASE owner = "BetterParticle" ->
                     BetterParticle_init(NoAttrs, px, py, pz, E, superpower)
              [] owner = "Particle" -> Particle_init(NoAttrs, px, py, pz, E)
              [] OTHER -> SimpleParticle_init(NoAttrs, px, py, pz, E))

\* obj.calc_mass()
CallCalcMassMethod(obj, mode) ==
    IF Resolve(obj.cls, "calc_mass") = "Particle"
    THEN Particle_calc_mass(obj.attrs, mode)
    ELSE SimpleParticle_calc_mass(obj.attrs, mode)

\* ------------------------------------------------------------------------
\* The dict records
\* ------------------------------------------------------------------------

\* pi1 = {'px': .., 'py': .., 'pz': .., 'E': ..}
DictLiteral(px, py, pz, E) ==
    Obj("dict", ("px" :> px) @@ ("py" :> py) @@ ("pz" :> pz) @@ ("E" :> E))

\* make_particle(px, py, pz, E), and the literal with the 'mass' entry.
make_particle(px, py, pz, E) ==
    Obj("dict", ("px" :> px) @@ ("py" :> py) @@ ("pz" :> pz) @@ ("E" :> E)
                @@ ("mass" :> Func("calc_mass")))

\* make_particle() of the two-phase construction: every component None.
make_particle_none ==
    Obj("dict", ("px" :> NoneValue) @@ ("py" :> NoneValue) @@ ("pz" :> NoneValue)
                @@ ("E" :> NoneValue) @@ ("mass" :> Func("calc_mass")))

\* initialize_particle building a new dict from the four values.
initialize_particle_fresh(particle, px, py, pz, E) ==
    [self  |-> particle,
     alloc |-> <<Obj("dict", ("px" :> px) @@ ("py" :> py) @@ ("pz" :> pz)
                             @@ ("E" :> E))>>,
     ret   |-> 1]

\* initialize_particle(particle, px, py, pz, E): the record as the function
\* leaves it, the objects it creates, and what it returns (0: particle).
initialize_particle(particle, px, py, pz, E) ==
    [self  |-> [particle EXCEPT !["px"] = px, !["py"] = py, !["pz"] = pz,
                                !["E"] = E],
     alloc |-> <<>>,
     ret   |-> 0]

\* pi1_px = ..; pi1_py = ..; pi1_pz = ..; pi1_E = ..
LooseNames(px, py, pz, E) ==
    Obj("names", ("px" :> px) @@ ("py" :> py) @@ ("pz" :> pz) @@ ("E" :> E))

\* ------------------------------------------------------------------------
\* Callable, NotCallable and Storage.  A method yields its outcome, the
\* lines it prints, and the attribute store as it leaves it.
\* ------------------------------------------------------------------------

\* The special methods each class body defines.
DunderDefines(cls) ==
    CASE cls = "Callable"    -> {"__call__"}
      [] cls = "NotCallable" -> {}
      [] cls = "Storage"     -> {"__init__", "__getitem__", "__setitem__"}
      [] OTHER               -> {}

\* An exception of a type, with its message.
Exc(type, msg) == [type |-> type, msg |-> msg]

\* "'<cls>' object is not callable"
NotCallableMessage(cls) == <<cls, "object is not callable">>

\* Callable.__call__(self, *args, **kwargs)
Callable_call(self, args, kwargs) ==
    [out     |-> Returned(NoneValue),
     printed |-> <<<<"called with args", args, "and kwargs", kwargs>>>>,
     self    |-> self]

\* The call operator raising AttributeError for a missing __call__.
Call_attrerror(obj, args, kwargs) ==
    IF "__call__" \in DunderDefines(obj.cls)
    THEN Callable_call(obj.attrs, args, kwargs)
    ELSE [out     |-> Raised(Exc("AttributeError", <<obj.cls, "__call__">>)),
          printed |-> <<>>,
          self    |-> obj.attrs]

\* obj(*args, **kwargs): the call operator looks for __call__ on the type.
Call(obj, args, kwargs) ==
    IF "__call__" \in DunderDefines(obj.cls)
    THEN Callable_call(obj.attrs, args, kwargs)
    ELSE [out     |-> Raised(Exc("TypeError", NotCallableMessage(obj.cls))),
          printed |-> <<>>,
          self    |-> obj.attrs]

\* try: obj()  except TypeError as error: print(error)
TryCall(obj) ==
    LET r == Call(obj, <<>>, NoAttrs)
    IN  IF r.out.kind = "raise" /\ r.out.exc.type = "TypeError"
        THEN [out     |-> Returned(NoneValue),
              printed |-> Append(r.printed, r.out.exc.msg),
              self    |-> r.self]
        ELSE r

\* self.container = [1, 5, 4]
InitialContainer == <<PyInt(1), PyInt(5), PyInt(4)>>

Storage_init(self, name) ==
    ("name" :> name) @@ ("container" :> InitialContainer) @@ self

\* The position (from 1) a list of length len gives an int index: indices
\* 0 .. len-1 count from the front, -len .. -1 from the back; 0 when the
\* index is out of range.
ListPos(len, index) ==
    IF 0 <= index /\ index < len THEN index + 1
    ELSE IF -len <= index /\ index < 0 THEN len + index + 1
    ELSE 0

Storage_getitem(self, index) ==
    LET pos == ListPos(Len(self["container"]), index)
    IN  [out     |-> IF pos = 0
                     THEN Raised(Exc("IndexError", <<"list index out of range">>))
                     ELSE Returned(self["container"][pos]),
         printed |-> <<<<"getitem of", self["name"], "invoked with index", index>>>>,
         self    |-> self]

\* Storage.__setitem__ inserting the item before the index.
Storage_setitem_insert(self, index, item) ==
    LET c   == self["container"]
        pos == ListPos(Len(c), index)
    IN  [out     |-> Returned(NoneValue),
         printed |-> <<<<"setitem of", self["name"], "invoked with index", index,
                        "and item", item>>>>,
         self    |-> IF pos = 0 THEN [self EXCEPT !["container"] = Append(c, item)]
                     ELSE [self EXCEPT !["container"] =
                              SubSeq(c, 1, pos - 1) \o <<item>> \o SubSeq(c, pos, Len(c))]]

Storage_setitem(self, index, item) ==
    LET pos == ListPos(Len(self["container"]), index)
    IN  [out     |-> IF pos = 0
                     THEN Raised(Exc("IndexError",
                                     <<"list assignment index out of range">>))
                     ELSE Returned(NoneValue),
         printed |-> <<<<"setitem of", self["name"], "invoked with index", index,
                        "and item", item>>>>,
         self    |-> IF pos = 0 THEN self
                     ELSE [self EXCEPT !["container"][pos] = item]]

\* ------------------------------------------------------------------------
\* Inputs
\* ------------------------------------------------------------------------

\* E=41.234227
E1_E == FloatLiteral(41, 234227)

\* The values a momentum component and the energy are drawn from when one
\* particle is studied.
MomVals == {PyInt(10), PyInt(20), PyInt(30), E1_E}

EVals == {PyInt(100), PyInt(-50), E1_E}

\* Particle(10, 20, 30, 100) and pi1
P1 == <<PyInt(10), PyInt(20), PyInt(30), PyInt(100)>>

\* make_particle(20, 30, 20, E=41.234227)
E1 == <<PyInt(20), PyInt(30), PyInt(20), E1_E>>

\* initialize_particle(make_particle(), px=20, py=30, pz=20, E=50)
P2 == <<PyInt(20), PyInt(30), PyInt(20), PyInt(50)>>

\* The four-vectors a record is initialised with.
RecordInputs == {P1, E1, P2}

\* The positional and keyword arguments a Callable is called with.
CallArgs == {<<>>, <<PyInt(1)>>}

CallKwargs == {NoAttrs, [x |-> PyInt(2)]}

\* The int indices read on a Storage: the valid ones, -3 .. 2, and one
\* out of range on either side.
Indices == -4 .. 3

\* The int indices written: the first entry, the last entry from the front
\* and from the back, and one out of range on either side.
WriteIndices == {-4, -1, 0, 2, 3}

\* The items written to a Storage.
Items == {PyInt(3), PyInt(7)}

\* The four-vectors of the session with several particles.
Inputs == {P1, E1}

\* The superpower arguments tried besides the default.
Superpowers == {PyInt(7)}

\* ------------------------------------------------------------------------
\* Operations
\* ------------------------------------------------------------------------

NoRet == [op |-> "none", self |-> 0, other |-> 0, args |-> <<>>,
          out |-> Returned(NoneValue)]

Init ==
    /\ heap = <<>>
    /\ ret = NoRet
    /\ reassigned = FALSE

\* A new object enters the heap and is returned.
Allocate(op, obj, args) ==
    /\ heap' = Append(heap, obj)
    /\ ret' = [NoRet EXCEPT !.op = op, !.args = args,
                            !.out = Returned(Ref(Len(heap) + 1))]
    /\ UNCHANGED reassigned

\* p = cls(px, py, pz, E)
Construct(cls, a) ==
    Allocate("construct",
             Instantiate(cls, a[1], a[2], a[3], a[4], PyInt(DefaultSuperpower)), a)

\* p = BetterParticle(px, py, pz, E, superpower=s)
ConstructBetter(a, s) ==
    /\ heap' = Append(heap, Instantiate("BetterParticle", a[1], a[2], a[3], a[4], s))
    /\ ret' = [op |-> "construct", self |-> 0, other |-> 0, args |-> a,
               kwargs |-> [superpower |-> s],
               out |-> Returned(Ref(Len(heap) + 1))]
    /\ UNCHANGED reassigned

\* pi1 = {...}
MakeDictLiteral(a) == Allocate("dict", DictLiteral(a[1], a[2], a[3], a[4]), a)

\* e1 = make_particle(...)
MakeParticle(a) == Allocate("make_particle", make_particle(a[1], a[2], a[3], a[4]), a)

\* pi1_px = ... (four assignments)
AssignNames(a) == Allocate("names", LooseNames(a[1], a[2], a[3], a[4]), a)

IsInstance(o) == o.cls \in Classes

\* new_particle = heap[i] + heap[j]
Add(i, j) ==
    /\ IsInstance(heap[i]) /\ IsInstance(heap[j])
    /\ Resolve(heap[i].cls, "__add__") = "Particle"
    /\ LET r  == Particle_add(heap[i].attrs, heap[j].attrs)
           id == IF r.ret = 0 THEN i ELSE Len(heap) + r.ret
       IN  /\ heap' = [heap EXCEPT ![i].attrs = r.self] \o r.alloc
           /\ ret' = [NoRet EXCEPT !.op = "add", !.self = i, !.other = j,
                                   !.out = Returned(Ref(id))]
    /\ UNCHANGED reassigned

\* heap[i].calc_mass()
CalcMassMethod(i, mode) ==
    /\ IsInstance(heap[i])
    /\ LET r == CallCalcMassMethod(heap[i], mode)
       IN  /\ heap' = [heap EXCEPT ![i].attrs = r.self]
           /\ ret' = [NoRet EXCEPT !.op = "calc_mass", !.self = i,
                                   !.out = r.out]
    /\ UNCHANGED reassigned

\* calc_mass(particle=heap[i])
CalcMassDict(i, mode) ==
    /\ heap[i].cls = "dict"
    /\ ret' = [NoRet EXCEPT !.op = "calc_mass(dict)", !.self = i,
                            !.out = calc_mass(heap[i].attrs, mode)]
    /\ UNCHANGED <<heap, reassigned>>

\* heap[i]['mass'](heap[i]): the entry holds the function calc_mass.
CalcMassEntry(i, mode) ==
    /\ heap[i].cls = "dict"
    /\ "mass" \in DOMAIN heap[i].attrs
    /\ heap[i].attrs["mass"] = Func("calc_mass")
    /\ ret' = [NoRet EXCEPT !.op = "['mass']", !.self = i,
                            !.out = calc_mass(heap[i].attrs, mode)]
    /\ UNCHANGED <<heap, reassigned>>

\* calc_mass_simple(pi1_px, pi1_py, pi1_pz, pi1_E)
CalcMassSimple(i, mode) ==
    /\ heap[i].cls = "names"
    /\ LET n == heap[i].attrs
       IN  ret' = [NoRet EXCEPT !.op = "calc_mass_simple", !.self = i,
                                !.out = calc_mass_simple(n["px"], n["py"], n["pz"],
                                                         n["E"], mode)]
    /\ UNCHANGED <<heap, reassigned>>

\* heap[i].f = v, heap[i]['f'] = v, or pi1_f = v: a component is reassigned.
Reassign(i, f, v) ==
    /\ heap[i].attrs[f] # v
    /\ heap' = [heap EXCEPT ![i].attrs[f] = v]
    /\ ret' = [NoRet EXCEPT !.op = "reassign", !.self = i]
    /\ reassigned' = TRUE

\* ------------------------------------------------------------------------
\* Spec: the session with several particles of the class hierarchy
\* (construction, addition, calc_mass), as the notebook's cells use them.
\* ------------------------------------------------------------------------

Next ==
    \/ \E cls \in {"Particle", "VerboseParticle"}, a \in Inputs :
          Len(heap) < MaxObjs /\ Construct(cls, a)
    \/ Len(heap) < MaxObjs /\ Construct("BetterParticle", P1)
    \/ \E s \in Superpowers :
          Len(heap) < MaxObjs /\ ConstructBetter(P1, s)
    \/ \E i \in DOMAIN heap, j \in DOMAIN heap :
          Len(heap) < MaxObjs /\ Add(i, j)
    \/ \E i \in DOMAIN heap, mode \in ErrModes : CalcMassMethod(i, mode)

Spec == Init /\ [][Next]_vars

\* ------------------------------------------------------------------------
\* SpecOne: one particle, in any of the representations, built from any
\* four values of Vals4; its mass is computed and its components may be
\* reassigned, any number of times.
\* ------------------------------------------------------------------------

Vals4 == MomVals \X MomVals \X MomVals \X EVals

\* The values field f may be given.
ValsOf(f) == IF f = "E" THEN EVals ELSE MomVals

NextOne ==
    \/ \E cls \in Classes, a \in Vals4 : heap = <<>> /\ Construct(cls, a)
    \/ \E a \in Vals4, s \in Superpowers : heap = <<>> /\ ConstructBetter(a, s)
    \/ \E a \in Vals4 : heap = <<>> /\ MakeDictLiteral(a)
    \/ \E a \in Vals4 : heap = <<>> /\ MakeParticle(a)
    \/ \E a \in Vals4 : heap = <<>> /\ AssignNames(a)
    \/ \E i \in DOMAIN heap, mode \in ErrModes : CalcMassMethod(i, mode)
    \/ \E i \in DOMAIN heap, mode \in ErrModes : CalcMassDict(i, mode)
    \/ \E i \in DOMAIN heap, mode \in ErrModes : CalcMassEntry(i, mode)
    \/ \E i \in DOMAIN heap, mode \in ErrModes : CalcMassSimple(i, mode)
    \/ \E i \in DOMAIN heap, f \in FieldNames : \E v \in ValsOf(f) : Reassign(i, f, v)

SpecOne == Init /\ [][NextOne]_vars

\* ------------------------------------------------------------------------
\* SpecRecord: the two-phase construction of dict records: make_particle()
\* with every component None, initialize_particle, and the 'mass' entry.
\* ------------------------------------------------------------------------

\* p = make_particle()
MakeParticleNone == Allocate("make_particle()", make_particle_none, <<>>)

\* initialize_particle(heap[i], px, py, pz, E)
InitializeParticle(i, a) ==
    /\ heap[i].cls = "dict"
    /\ LET r  == initialize_particle(heap[i].attrs, a[1], a[2], a[3], a[4])
           id == IF r.ret = 0 THEN i ELSE Len(heap) + r.ret
       IN  /\ heap' = [heap EXCEPT ![i].attrs = r.self] \o r.alloc
           /\ ret' = [NoRet EXCEPT !.op = "initialize_particle", !.self = i,
                                   !.args = a, !.out = Returned(Ref(id))]
    /\ UNCHANGED reassigned

NextRecord ==
    \/ Len(heap) < MaxObjs /\ MakeParticleNone
    \/ \E i \in DOMAIN heap, a \in RecordInputs : InitializeParticle(i, a)
    \/ \E i \in DOMAIN heap, mode \in ErrModes : CalcMassEntry(i, mode)

SpecRecord == Init /\ [][NextRecord]_vars

\* ------------------------------------------------------------------------
\* SpecDunder: the session of the second notebook: Callable and NotCallable
\* instances and calls on them, a Storage and its indexing.
\* ------------------------------------------------------------------------

\* What a cell did: its operation, the object it acted on, its arguments,
\* its outcome and the lines it printed.
CellRet(op, self, args, out, printed) ==
    [op |-> op, self |-> self, other |-> 0, args |-> args, out |-> out,
     printed |-> printed]

\* call = Callable(), noncall = NotCallable()
ConstructPlain(cls) ==
    /\ heap' = Append(heap, Obj(cls, NoAttrs))
    /\ ret' = CellRet(cls, 0, <<>>, Returned(Ref(Len(heap) + 1)), <<>>)
    /\ UNCHANGED reassigned

\* storage = Storage('one')
ConstructStorage(name) ==
    /\ heap' = Append(heap, Obj("Storage", Storage_init(NoAttrs, name)))
    /\ ret' = CellRet("Storage", 0, <<name>>, Returned(Ref(Len(heap) + 1)), <<>>)
    /\ UNCHANGED reassigned

\* heap[i](*args, **kwargs)
CallCell(i, args, kwargs) ==
    /\ LET r == Call(heap[i], args, kwargs)
       IN  /\ heap' = [heap EXCEPT ![i].attrs = r.self]
           /\ ret' = CellRet("call", i, <<args, kwargs>>, r.out, r.printed)
    /\ UNCHANGED reassigned

\* try: heap[i]()  except TypeError as error: print(error)
TryCallCell(i) ==
    /\ LET r == TryCall(heap[i])
       IN  /\ heap' = [heap EXCEPT ![i].attrs = r.self]
           /\ ret' = CellRet("try call", i, <<>>, r.out, r.printed)
    /\ UNCHANGED reassigned

\* heap[i][index]
GetItemCell(i, index) ==
    /\ heap[i].cls = "Storage"
    /\ LET r == Storage_getitem(heap[i].attrs, index)
       IN  /\ heap' = [heap EXCEPT ![i].attrs = r.self]
           /\ ret' = CellRet("getitem", i, <<index>>, r.out, r.printed)
    /\ UNCHANGED reassigned

\* heap[i][index] = item
SetItemCell(i, index, item) ==
    /\ heap[i].cls = "Storage"
    /\ LET r == Storage_setitem(heap[i].attrs, index, item)
       IN  /\ heap' = [heap EXCEPT ![i].attrs = r.self]
           /\ ret' = CellRet("setitem", i, <<index, item>>, r.out, r.printed)
    /\ UNCHANGED reassigned

NextDunder ==
    \/ \E cls \in {"Callable", "NotCallable"} :
          Len(heap) < MaxDunderObjs /\ ConstructPlain(cls)
    \/ Len(heap) < MaxDunderObjs /\ ConstructStorage("one")
    \/ \E i \in DOMAIN heap, args \in CallArgs, kwargs \in CallKwargs :
          CallCell(i, args, kwargs)
    \/ \E i \in DOMAIN heap : TryCallCell(i)
    \/ \E i \in DOMAIN heap, index \in Indices : GetItemCell(i, index)
    \/ \E i \in DOMAIN heap, index \in WriteIndices, item \in Items :
          SetItemCell(i, index, item)

SpecDunder == Init /\ [][NextDunder]_vars

\* ------------------------------------------------------------------------
\* Properties
\* ------------------------------------------------------------------------

\* The object the last cell returned.
Result == heap[ret.out.val.id]

\* cls is base or derives from it.
RECURSIVE IsSubclass(_, _)
IsSubclass(cls, base) ==
    IF cls = base THEN TRUE
    ELSE IF cls \notin Classes THEN FALSE
    ELSE IsSubclass(Base(cls), base)

\* The cells that compute a mass.
MassOps == {"calc_mass", "calc_mass(dict)", "['mass']", "calc_mass_simple"}

\* The radicand of the four components of an attribute store.
RadicandOf(attrs) == Radicand(attrs["px"], attrs["py"], attrs["pz"], attrs["E"])

\* C1: addition on a specialized variant returns the variant: for a and b
\* both VerboseParticle (or both BetterParticle), a + b has the runtime type
\* of the left operand a.
C1_SumHasTypeOfLeftOperand ==
    (/\ ret.op = "add"
     /\ heap[ret.self].cls \in {"VerboseParticle", "BetterParticle"}
     /\ heap[ret.other].cls = heap[ret.self].cls)
    => Result.cls = heap[ret.self].cls

\* C2: a + b is a Particle whose px, py, pz and E are the sums of the
\* operands' corresponding components (the exact sum of two ints, the
\* float sum otherwise).
C2_SumIsComponentwise ==
    ret.op = "add" =>
        /\ ret.out.kind = "return"
        /\ IsSubclass(Result.cls, "Particle")
        /\ DOMAIN Result.attrs = FieldNames
        /\ \A f \in FieldNames :
              LET x == heap[ret.self].attrs[f]
                  y == heap[ret.other].attrs[f]
                  z == Result.attrs[f]
              IN  /\ z = PyAdd(x, y)
                  /\ (IsInt(x) /\ IsInt(y)) => (IsInt(z) /\ z.n = x.n + y.n)

\* Two distinct particles, one with a float energy, have been added.
C2_Witness ==
    /\ ret.op = "add"
    /\ ret.self # ret.other
    /\ IsFloat(heap[ret.self].attrs["E"])
    /\ IsInt(heap[ret.other].attrs["E"])
    /\ IsFloat(Result.attrs["E"])

SquareError(r, x, e0) ==
    LET xm == IF IsInt(x) THEN x.n ELSE x.m
        xe == IF IsInt(x) THEN 0 ELSE x.e
    IN  r.m * r.m * (2 ^ (2 * r.e - e0)) - xm * (2 ^ (xe - e0))

\* The exponent of the unit in which r * r and x are both whole.
CommonExp(r, x) == Min(2 * r.e, IF IsInt(x) THEN 0 ELSE x.e)

\* x in units of 2^e0.
Scaled(x, e0) == IF IsInt(x) THEN x.n * (2 ^ (-e0)) ELSE x.m * (2 ^ (x.e - e0))

\* C4 as claimed: the result of a mass computation on a non-negative
\* radicand, squared as Python squares it (result ** 2), equals the
\* radicand, and the radicand of (10, 20, 30, 100) is 8600.
C4_SquareOfMassIsRadicand ==
    ret.op \in MassOps =>
        LET a   == heap[ret.self].attrs
            rad == RadicandOf(a)
        IN  /\ Comps(a) = P1 => rad = PyInt(8600)
            /\ ~IsNegative(rad) =>
                  /\ ret.out.kind = "return"
                  /\ IsFloat(ret.out.val)
                  /\ PySquare(ret.out.val) = ToFloat(rad)

\* C4 as amended: the result of a mass computation on a non-negative
\* radicand is a non-negative float whose square equals the radicand up to
\* floating-point rounding (a relative error of at most 2^(2 - Precision)),
\* and the radicand of (10, 20, 30, 100) is exactly 8600.
C4_SquareOfMassIsRadicandRounded ==
    ret.op \in MassOps =>
        LET a   == heap[ret.self].attrs
            rad == RadicandOf(a)
            r   == ret.out.val
            e0  == CommonExp(r, rad)
        IN  /\ Comps(a) = P1 => rad = PyInt(8600)
            /\ ~IsNegative(rad) =>
                  /\ ret.out.kind = "return"
                  /\ IsFloat(r)
                  /\ r.m >= 0
                  /\ Abs(SquareError(r, rad, e0))
                        <= Scaled(rad, e0) \div (2 ^ (Precision - 2))

\* A mass was computed on a positive radicand and came back as a float
\* whose square, exact or as Python rounds it, is not the radicand.
C4_Witness ==
    /\ ret.op = "calc_mass"
    /\ ~IsNegative(RadicandOf(heap[ret.self].attrs))
    /\ ret.out.kind = "return"
    /\ IsFloat(ret.out.val)
    /\ ret.out.val.m > 0
    /\ PySquare(ret.out.val) # ToFloat(RadicandOf(heap[ret.self].attrs))
    /\ LET rad == RadicandOf(heap[ret.self].attrs)
       IN  SquareError(ret.out.val, rad, CommonExp(ret.out.val, rad)) # 0

\* The components of a + b, as Particle.__add__ computes them.
SumComps(a, b) == Comps(Particle_add(a, b).alloc[1].attrs)

\* The attribute store of a + b.
SumAttrs(a, b) == Particle_add(a, b).alloc[1].attrs

\* All four components of an attribute store are ints.
AllInt(a) == \A f \in FieldNames : IsInt(a[f])

\* C5 as claimed: the components of the sum a + b an addition returned
\* equal those of b + a, and for every particle c the components of
\* (a + b) + c equal those of a + (b + c).
C5_AddCommutativeAssociative ==
    ret.op = "add" =>
        LET a == heap[ret.self].attrs
            b == heap[ret.other].attrs
        IN  /\ Comps(Result.attrs) = SumComps(b, a)
            /\ \A k \in DOMAIN heap :
                  LET c == heap[k].attrs
                  IN  SumComps(Result.attrs, c) = SumComps(a, SumAttrs(b, c))

\* C5 as amended: the components of the sum a + b an addition returned
\* equal those of b + a, and for every particle c the components of
\* (a + b) + c equal those of a + (b + c) when the components of a, b and c
\* are ints.
C5_AddCommutativeAssociativeOnInts ==
    ret.op = "add" =>
        LET a == heap[ret.self].attrs
            b == heap[ret.other].attrs
        IN  /\ Comps(Result.attrs) = SumComps(b, a)
            /\ \A k \in DOMAIN heap :
                  LET c == heap[k].attrs
                  IN  (AllInt(a) /\ AllInt(b) /\ AllInt(c))
                      => SumComps(Result.attrs, c) = SumComps(a, SumAttrs(b, c))

\* Three particles with int components, the third the sum of the first two
\* by an addition cell, and the first two different.
C5_Witness ==
    /\ ret.op = "add"
    /\ Len(heap) = 3
    /\ ret.out.val.id = 3
    /\ ret.self = 1 /\ ret.other = 2
    /\ \A i \in DOMAIN heap : AllInt(heap[i].attrs)
    /\ Comps(heap[1].attrs) # Comps(heap[3].attrs)

\* C6: constructing an instance from any px, py, pz, E succeeds, and its
\* px, py, pz, E then read back as exactly the four arguments.
C6_ConstructionRoundTrip ==
    ret.op = "construct" =>
        /\ ret.out.kind = "return"
        /\ ret.out.val.id \in DOMAIN heap
        /\ FieldNames \subseteq DOMAIN Result.attrs
        /\ Comps(Result.attrs) = ret.args

\* A Particle was constructed from physically inconsistent values: E < 0
\* and a negative radicand.
C6_Witness ==
    /\ ret.op = "construct"
    /\ Result.cls = "Particle"
    /\ IsNegative(Result.attrs["E"])
    /\ IsNegative(RadicandOf(Result.attrs))
    /\ IsFloat(Result.attrs["px"])

\* C7: an addition or a calc_mass call leaves every existing object as it
\* was, and an addition returns a newly created object, distinct from both
\* operands.
C7_AddAndCalcMassArePure ==
    [][/\ \A k \in DOMAIN heap : k \in DOMAIN heap' /\ heap'[k] = heap[k]
       /\ ret'.op = "add" =>
             /\ ret'.out.kind = "return"
             /\ ret'.out.val.id \notin DOMAIN heap
             /\ ret'.out.val.id \in DOMAIN heap'
             /\ ret'.out.val.id \notin {ret'.self, ret'.other}]_vars

\* A mass was computed after an addition put a sum on the heap.
C7_Witness ==
    /\ ret.op = "calc_mass"
    /\ Len(heap) = 3
    /\ \E i \in 1..2, j \in 1..2 :
          /\ i # j
          /\ Comps(heap[3].attrs) = SumComps(heap[i].attrs, heap[j].attrs)
          /\ Comps(heap[3].attrs) \notin Inputs

\* The attributes and entries construction gives a representation.
ConstructedNames(cls) ==
    CASE cls = "BetterParticle" -> FieldNames \cup {"superpower"}
      [] cls = "dict"           -> FieldNames \cup {"mass"}
      [] OTHER                  -> FieldNames

\* C8: the mass is computed on demand and never stored: a particle holds
\* no attribute or entry besides those construction gave it (a dict's
\* 'mass' entry holds the function, not a value), and a mass computation,
\* also one after a component was reassigned, yields the mass of the
\* particle's current four components.
C8_MassIsComputedOnDemand ==
    /\ \A k \in DOMAIN heap :
          /\ DOMAIN heap[k].attrs \subseteq ConstructedNames(heap[k].cls)
          /\ "mass" \in DOMAIN heap[k].attrs
                => heap[k].attrs["mass"] = Func("calc_mass")
    /\ ret.op \in MassOps =>
          LET a == heap[ret.self].attrs
          IN  \E mode \in ErrModes :
                 ret.out = calc_mass_simple(a["px"], a["py"], a["pz"], a["E"], mode)

\* The mass of a Particle was computed after one of its components was
\* reassigned, and came back as a float.
C8_Witness ==
    /\ reassigned
    /\ ret.op = "calc_mass"
    /\ heap[ret.self].cls = "Particle"
    /\ heap[ret.self].attrs["E"] = PyInt(100)
    /\ heap[ret.self].attrs["px"] = E1_E
    /\ ret.out.kind = "return"
    /\ IsFloat(ret.out.val)

\* 100 * x lies between lo and hi, for a float x.
HundredfoldWithin(x, lo, hi) ==
    IF x.e >= 0 THEN lo <= 100 * x.m * (2 ^ x.e) /\ 100 * x.m * (2 ^ x.e) <= hi
    ELSE lo * (2 ^ (-x.e)) <= 100 * x.m /\ 100 * x.m <= hi * (2 ^ (-x.e))

\* C9: for (px=20, py=30, pz=20, E=41.234227) the radicand is non-negative
\* and about 0.26 (between 0.24 and 0.28), and a mass computation returns
\* a real float: it neither raises nor returns not-a-number.
C9_NearBoundaryMassIsReal ==
    (ret.op \in MassOps /\ Comps(heap[ret.self].attrs) = E1) =>
        LET rad == RadicandOf(heap[ret.self].attrs)
        IN  /\ IsFloat(rad)
            /\ ~IsNegative(rad)
            /\ HundredfoldWithin(rad, 24, 28)
            /\ ret.out.kind = "return"
            /\ IsFloat(ret.out.val)
            /\ ret.out.val.m > 0

\* e1['mass'](e1) was called on e1 = make_particle(20, 30, 20, E=41.234227)
\* with floating-point errors set to raise, and returned.
C9_Witness ==
    /\ ret.op = "['mass']"
    /\ Comps(heap[ret.self].attrs) = E1
    /\ ~reassigned
    /\ ret.out.kind = "return"
    /\ ret.out = calc_mass(heap[ret.self].attrs, "raise")

\* C10: the representations compute the same mass: on the four components
\* of any particle, calc_mass_simple, calc_mass on the dict literal, the
\* 'mass' entry of the make_particle record applied to the record, and
\* calc_mass() of the SimpleParticle and of the Particle built from them
\* have the same outcome, and a mass computation yields that outcome.
C10_RepresentationsAgree ==
    /\ \A k \in DOMAIN heap, mode \in ErrModes :
          LET c      == Comps(heap[k].attrs)
              simple == calc_mass_simple(c[1], c[2], c[3], c[4], mode)
              record == make_particle(c[1], c[2], c[3], c[4])
          IN  /\ calc_mass(DictLiteral(c[1], c[2], c[3], c[4]).attrs, mode) = simple
              /\ record.attrs["mass"] = Func("calc_mass")
              /\ calc_mass(record.attrs, mode) = simple
              /\ \A cls \in {"SimpleParticle", "Particle"} :
                    CallCalcMassMethod(
                        Instantiate(cls, c[1], c[2], c[3], c[4], NoneValue),
                        mode).out = simple
    /\ ret.op \in MassOps =>
          LET c == Comps(heap[ret.self].attrs)
          IN  \E mode \in ErrModes :
                 /\ ret.out = calc_mass_simple(c[1], c[2], c[3], c[4], mode)
                 /\ ret.out = calc_mass(DictLiteral(c[1], c[2], c[3], c[4]).attrs, mode)

\* calc_mass was called on a dict with three different momentum
\* components, one of them a float, and returned a float.
C10_Witness ==
    /\ ret.op = "calc_mass(dict)"
    /\ LET a == heap[ret.self].attrs
       IN  /\ a["px"] = PyInt(10) /\ a["py"] = PyInt(20) /\ a["pz"] = E1_E
           /\ a["E"] = PyInt(100)
    /\ ret.out.kind = "return"
    /\ IsFloat(ret.out.val)

\* C11: make_particle() returns a record whose px, py, pz, E are all
\* present and None; initialize_particle(p, px, py, pz, E) returns the
\* same record p with the four keys equal to the arguments; and in every
\* state every record holds the four keys and its 'mass' entry, the
\* function calc_mass.
C11_TwoPhaseConstruction ==
    /\ \A k \in DOMAIN heap :
          /\ FieldNames \subseteq DOMAIN heap[k].attrs
          /\ "mass" \in DOMAIN heap[k].attrs
          /\ heap[k].attrs["mass"] = Func("calc_mass")
    /\ ret.op = "make_particle()" =>
          /\ ret.out.kind = "return"
          /\ \A f \in FieldNames : Result.attrs[f] = NoneValue
    /\ ret.op = "initialize_particle" =>
          /\ ret.out = Returned(Ref(ret.self))
          /\ Comps(Result.attrs) = ret.args

\* The first of two records was initialised with (20, 30, 20, 50) while
\* the second is still as make_particle() returned it.
C11_Witness ==
    /\ ret.op = "initialize_particle"
    /\ ret.self = 1
    /\ Len(heap) = 2
    /\ Comps(heap[1].attrs) = P2
    /\ \A f \in FieldNames : heap[2].attrs[f] = NoneValue

\* C12: BetterParticle(px, py, pz, E, superpower=s) stores the four
\* components as Particle.__init__ stores them and superpower = s, 42 when
\* the argument is omitted; and the sum of two BetterParticles, whatever
\* their superpowers, has no superpower attribute.
C12_SuperpowerNotCarried ==
    /\ (ret.op = "construct" /\ Result.cls = "BetterParticle") =>
          LET a == ret.args
          IN  /\ DOMAIN Result.attrs = FieldNames \cup {"superpower"}
              /\ \A f \in FieldNames :
                    Result.attrs[f] = Particle_init(NoAttrs, a[1], a[2], a[3], a[4])[f]
              /\ Result.attrs["superpower"] =
                    IF "kwargs" \in DOMAIN ret THEN ret.kwargs["superpower"]
                    ELSE PyInt(42)
    /\ (/\ ret.op = "add"
        /\ heap[ret.self].cls = "BetterParticle"
        /\ heap[ret.other].cls = "BetterParticle") =>
          /\ ret.out.kind = "return"
          /\ "superpower" \notin DOMAIN Result.attrs

\* A BetterParticle with superpower 7 and one with the default 42 were
\* added, and the sum has no superpower.
C12_Witness ==
    /\ ret.op = "add"
    /\ heap[ret.self].cls = "BetterParticle"
    /\ heap[ret.other].cls = "BetterParticle"
    /\ heap[ret.self].attrs["superpower"] = PyInt(7)
    /\ heap[ret.other].attrs["superpower"] = PyInt(42)
    /\ "superpower" \notin DOMAIN Result.attrs

\* C13: calling an object whose type defines no __call__ raises a
\* TypeError whose message names the type and says it is not callable;
\* the cell that wraps the call in try / except TypeError catches it,
\* prints the message and ends normally; and calling a Callable, with any
\* positional and keyword arguments, returns None without error after
\* printing them.
C13_CallDispatch ==
    /\ ret.op = "call" =>
          LET obj == heap[ret.self]
          IN  IF obj.cls = "Callable"
              THEN /\ ret.out = Returned(NoneValue)
                   /\ ret.printed = <<<<"called with args", ret.args[1],
                                       "and kwargs", ret.args[2]>>>>
              ELSE /\ ret.out.kind = "raise"
                   /\ ret.out.exc.type = "TypeError"
                   /\ ret.out.exc.msg = <<obj.cls, "object is not callable">>
                   /\ ret.printed = <<>>
    /\ ret.op = "try call" =>
          LET obj == heap[ret.self]
          IN  /\ ret.out = Returned(NoneValue)
              /\ ret.printed =
                    IF obj.cls = "Callable"
                    THEN <<<<"called with args", <<>>, "and kwargs", NoAttrs>>>>
                    ELSE <<<<obj.cls, "object is not callable">>>>

\* The try cell ran on a NotCallable instance: the error was caught and its
\* message printed.
C13_Witness ==
    /\ ret.op = "try call"
    /\ heap[ret.self].cls = "NotCallable"
    /\ ret.out.kind = "return"
    /\ ret.printed = <<<<"NotCallable", "object is not callable">>>>

\* C14: a new Storage holds 1, 5, 4; every Storage always has exactly 3
\* entries; a write storage[i] = x at a valid index replaces the entry at
\* the position of i and leaves every other entry, the name and every
\* other object as they were, so that storage[i] then reads x; and a read
\* at a valid index returns the entry at that position and changes
\* nothing.
C14_StorageIndexing ==
    [][/\ ret'.op = "Storage" =>
             heap'[ret'.out.val.id].attrs["container"]
                = <<PyInt(1), PyInt(5), PyInt(4)>>
       /\ \A k \in DOMAIN heap' :
             heap'[k].cls = "Storage" => Len(heap'[k].attrs["container"]) = 3
       /\ (ret'.op = "setitem" /\ ret'.args[1] \in -3 .. 2) =>
             LET i    == ret'.self
                 idx  == ret'.args[1]
                 pos  == IF idx >= 0 THEN idx + 1 ELSE idx + 4
                 item == ret'.args[2]
             IN  /\ ret'.out.kind = "return"
                 /\ heap'[i].attrs["container"]
                       = [heap[i].attrs["container"] EXCEPT ![pos] = item]
                 /\ heap'[i].attrs["name"] = heap[i].attrs["name"]
                 /\ \A k \in DOMAIN heap : k # i => heap'[k] = heap[k]
                 /\ Storage_getitem(heap'[i].attrs, idx).out = Returned(item)
       /\ (ret'.op = "getitem" /\ ret'.args[1] \in -3 .. 2) =>
             LET i   == ret'.self
                 idx == ret'.args[1]
                 pos == IF idx >= 0 THEN idx + 1 ELSE idx + 4
             IN  /\ heap' = heap
                 /\ ret'.out = Returned(heap[i].attrs["container"][pos])]_vars

\* storage[2] was read after 3 was written at index 0 and 7 at the last
\* index: it returns 7, and the entry never written is still 5.
C14_Witness ==
    /\ ret.op = "getitem"
    /\ ret.args = <<2>>
    /\ heap[ret.self].attrs["container"] = <<PyInt(3), PyInt(5), PyInt(7)>>
    /\ ret.out = Returned(PyInt(7))

====
